---- MODULE Spec2Model ----
(***************************************************************************)
(* The todo list of bruteforce774/todo: the React binding (src/src/App.tsx *)
(* 1-68, with components/TodoForm.tsx), the Vue binding (src/src/App.tsx   *)
(* 69-141; src/src/App.vue 1-66 is the same component without addTodo) and *)
(* the list operations they share (toggleTodo, deleteTodo, addTodo).       *)
(*                                                                         *)
(* A todo is a record [userId, id, title, completed]; a title is a         *)
(* sequence of characters, so that trim() is computed and not assumed.     *)
(* React state changes only when a render processes the queued updates;    *)
(* handlers read the todos of the last render (their closure).  Vue refs   *)
(* change at the assignment.                                               *)
(*                                                                         *)
(* Persistence: the script of src/src/App.vue 67-106 (a list of titles in  *)
(* localStorage) and loadTodos / saveTodos of src/unnamed/part_000.  A     *)
(* stored text is a sequence of tokens; JSON.stringify and JSON.parse are  *)
(* computed on it.                                                         *)
(***************************************************************************)
EXTENDS Integers, Sequences, FiniteSets, TLC

VARIABLES
    binding,     \* "react" | "vue": which component is mounted
    todos,       \* the todos state (React: as of the last render; Vue: todos.value)
    loading,     \* the loading state
    queue,       \* React: updates passed to setTodos/setLoading, not rendered yet
    fetchState,  \* the promise of fetch(): "pending" | "resolved" | "rejected"
    jsonState,   \* the promise of response.json(): "idle" | "pending" | "resolved" | "rejected"
    response,    \* the response fetch() resolved with, while the handler holds it
    pIn,         \* list operations taken alone: the list given
    pOp,         \*   the operation applied: "none" | "toggle" | "delete" | "add"
    pId,         \*   its id argument
    pTitle,      \*   its title argument
    pOut,        \*   the list returned
    given,       \* the ids addTodo has given, in order (kept for the properties)
    snap,        \* an observer's reference to the array: taken, still the same object, its content
    impl,        \* storage: whose load and save run: "vanilla" | "doc" | "docValidated"
    slot,        \*   localStorage under the key "todos": present, text (tokens)
    mem,         \*   the list in memory: what load returned or the program holds
    saved,       \*   the list last handed to save
    sPc,         \*   "init" | "loaded" | "saved" | "reloaded"
    thrown,      \*   an exception left load or save
    wrote,       \*   the last setItem stored its value
    tab,         \* the script: for each tab, started, its todos, the list it shows
    act,         \*   the handler that ran last: tab, what it did, the position clicked, done
    writer       \*   the tab whose save stored the value the key holds (0: none)

vars == <<binding, todos, loading, queue, fetchState, jsonState, response,
          pIn, pOp, pId, pTitle, pOut, given, snap,
          impl, slot, mem, saved, sPc, thrown, wrote, tab, act, writer>>
appVars == <<binding, todos, loading, queue, fetchState, jsonState, response>>
pureVars == <<pIn, pOp, pId, pTitle, pOut>>
storeVars == <<given, snap>>
storageVars == <<impl, slot, mem, saved, sPc, thrown, wrote>>
vanillaVars == <<tab, act, writer>>
auxVars == <<storeVars, storageVars, vanillaVars>>

----------------------------------------------------------------------------
\* Bounds of the model

\* ids the seed endpoint may give: 1..MaxId
MaxId == 2
\* records in a seed response
MaxSeed == 2
\* an add gesture is taken only while the list is shorter than this
MaxLen == 2
\* user gestures React may queue before a render
MaxQueue == 2
\* the lists given to a list operation taken alone: length and ids
PMaxLen == 2
PMaxId == 3

\* adds followed in one run of the store
MaxAdds == 3

\* locally assigned ids stay below this (seed ids plus one per add)
IdCap == MaxId + MaxLen + 1

----------------------------------------------------------------------------
\* Titles and trim()

\* what a user can type: empty, blank, a letter, a letter after a blank
Titles == {<<>>, <<" ">>, <<"a">>, <<" ", "a">>}
\* the titles typed into the mounted form
TypedTitles == {<<" ">>, <<"a">>}

IsSpace(c) == c = " "

RECURSIVE TrimStart(_)
TrimStart(s) ==
    IF s # <<>> /\ IsSpace(Head(s)) THEN TrimStart(Tail(s)) ELSE s

RECURSIVE TrimEnd(_)
TrimEnd(s) ==
    IF s # <<>> /\ IsSpace(s[Len(s)]) THEN TrimEnd(SubSeq(s, 1, Len(s) - 1)) ELSE s

\* String.prototype.trim
trim(s) == TrimEnd(TrimStart(s))

----------------------------------------------------------------------------
\* Todos and lists

Todo(u, i, t, c) == [userId |-> u, id |-> i, title |-> t, completed |-> c]

NoTodo == Todo(0, 0, <<>>, FALSE)

Ids(ts) == {ts[k].id : k \in DOMAIN ts}

UniqueIds(ts) == \A j, k \in DOMAIN ts : j # k => ts[j].id # ts[k].id

RECURSIVE SeqsUpTo(_, _)
SeqsUpTo(S, n) ==
    IF n = 0 THEN {<<>>}
    ELSE LET shorter == SeqsUpTo(S, n - 1)
         IN  shorter \cup {Append(s, x) : s \in {q \in shorter : Len(q) = n - 1}, x \in S}

\* records as the endpoint serves them: an owner other than the local one
SeedTodos == {Todo(2, i, <<"a">>, c) : i \in 1..MaxId, c \in BOOLEAN}

\* the seeds: lists of served records with pairwise distinct ids, in any order
Seeds == {s \in SeqsUpTo(SeedTodos, MaxSeed) : UniqueIds(s)}

----------------------------------------------------------------------------
\* The list operations

\* todos.map(t => t.id === id ? { ...t, completed: !t.completed } : t)
toggleTodo_byIndex(ts, id) ==
    [k \in DOMAIN ts |-> IF k = id THEN [ts[k] EXCEPT !.completed = ~@] ELSE ts[k]]

\* as toggleTodo, marking the record completed instead of negating the flag
toggleTodo_setsCompleted(ts, id) ==
    [k \in DOMAIN ts |-> IF ts[k].id = id THEN [ts[k] EXCEPT !.completed = TRUE] ELSE ts[k]]

\* as toggleTodo, the record rebuilt without the spread: the owner is lost
toggleTodo_noSpread(ts, id) ==
    [k \in DOMAIN ts |->
        IF ts[k].id = id THEN Todo(1, ts[k].id, ts[k].title, ~ts[k].completed) ELSE ts[k]]

toggleTodo(ts, id) ==
    [k \in DOMAIN ts |-> IF ts[k].id = id THEN [ts[k] EXCEPT !.completed = ~@] ELSE ts[k]]

\* todos.filter(t => t.id !== id)
deleteTodo_splice(ts, id) ==
    IF id \in Ids(ts) THEN SelectSeq(ts, LAMBDA t : t.id # id)
    ELSE SubSeq(ts, 1, Len(ts) - 1)

\* as deleteTodo, removing the first match only (findIndex and splice)
deleteTodo_firstMatch(ts, id) ==
    IF id \notin Ids(ts) THEN ts
    ELSE LET k == CHOOSE j \in DOMAIN ts : ts[j].id = id /\ \A m \in 1..(j - 1) : ts[m].id # id
         IN  SubSeq(ts, 1, k - 1) \o SubSeq(ts, k + 1, Len(ts))

deleteTodo(ts, id) == SelectSeq(ts, LAMBDA t : t.id # id)

\* as newId, without the + 1 on the id of the last record
newId_lastId(ts) == IF Len(ts) # 0 THEN ts[Len(ts)].id ELSE 1

\* as newId, from the length of the list
newId_length(ts) == Len(ts) + 1

\* length ? (todos[length - 1]?.id ?? 0) + 1 : 1
newId(ts) == IF Len(ts) # 0 THEN ts[Len(ts)].id + 1 ELSE 1

\* the record addTodo builds from the list it reads
newTodo(ts, title) == Todo(1, newId(ts), title, FALSE)

\* addTodo that puts the record in front
addTodo_unshift(ts, title) == <<newTodo(ts, title)>> \o ts

\* addTodo on one list: the record is computed from it and appended to it
addTodo(ts, title) == Append(ts, newTodo(ts, title))

----------------------------------------------------------------------------
\* The seed response

\* fetch() resolves for every status; json() rejects when the body is no JSON.
\* A JSON body is an array of todos, as the code's cast to Todo[] takes it.
Responses ==
    {[status |-> st, parseable |-> TRUE, body |-> b] : st \in {200, 404}, b \in Seeds}
    \cup {[status |-> st, parseable |-> FALSE, body |-> <<>>] : st \in {200, 404}}

NoResponse == [status |-> 0, parseable |-> FALSE, body |-> <<>>]

\* Response.ok
ResponseOk(r) == r.status >= 200 /\ r.status <= 299

----------------------------------------------------------------------------
\* React: the updates given to setTodos and setLoading, applied by the render

Update(op, id, todo, data, flag) ==
    [op |-> op, id |-> id, todo |-> todo, data |-> data, flag |-> flag]

SetTodosTo(data) == Update("set", 0, NoTodo, data, FALSE)
SetLoadingTo(b)  == Update("loading", 0, NoTodo, <<>>, b)
ToggleUpdater(id) == Update("toggle", id, NoTodo, <<>>, FALSE)
DeleteUpdater(id) == Update("delete", id, NoTodo, <<>>, FALSE)
AppendUpdater(t)  == Update("append", 0, t, <<>>, FALSE)

\* one queued update applied to the state [todos, loading]
ApplyUpdate(st, u) ==
    CASE u.op = "set"     -> [st EXCEPT !.todos = u.data]
      [] u.op = "toggle"  -> [st EXCEPT !.todos = toggleTodo(@, u.id)]
      [] u.op = "delete"  -> [st EXCEPT !.todos = deleteTodo(@, u.id)]
      [] u.op = "append"  -> [st EXCEPT !.todos = Append(@, u.todo)]
      [] u.op = "loading" -> [st EXCEPT !.loading = u.flag]

\* every update applied to the state of the last render: the last one wins
ApplyAll_lastOnly(st, q) ==
    IF q = <<>> THEN st ELSE ApplyUpdate(st, q[Len(q)])

\* the queue processed in order, each updater on the result of the one before
RECURSIVE ApplyAll(_, _)
ApplyAll(st, q) ==
    IF q = <<>> THEN st ELSE ApplyAll(ApplyUpdate(st, Head(q)), Tail(q))

\* the user gestures waiting in the queue (the fetch handler's updates aside)
Gestures(q) == Len(SelectSeq(q, LAMBDA u : u.op \in {"toggle", "delete", "append"}))

----------------------------------------------------------------------------
\* The component: mount, the fetch handler, the gestures

\* no observer yet
NoSnap == [taken |-> FALSE, same |-> FALSE, val |-> <<>>]

\* an array value in memory, and a value that is no array
ArrayOf(es) == [isArray |-> TRUE, list |-> es]
NotAnArray == [isArray |-> FALSE, list |-> <<>>]

\* the key is not in localStorage
Absent == [present |-> FALSE, text |-> <<>>]

\* the storage variables while no load or save is followed
StorageAtRest ==
    /\ impl = "vanilla"
    /\ slot = Absent
    /\ mem = ArrayOf(<<>>)
    /\ saved = <<>>
    /\ sPc = "init"
    /\ thrown = FALSE
    /\ wrote = FALSE

\* the tabs that run the script
Tabs == {1, 2}

\* a tab before the script runs, and no handler yet
NotStarted == [started |-> FALSE, todos |-> <<>>, dom |-> <<>>]
NoAct == [t |-> 0, op |-> "none", k |-> 0, done |-> TRUE]

\* the script variables while no tab is followed
VanillaAtRest ==
    /\ tab = [t \in Tabs |-> NotStarted]
    /\ act = NoAct
    /\ writer = 0

\* the variables a specification does not use, at rest
AuxInit ==
    /\ given = <<>>
    /\ snap = NoSnap
    /\ StorageAtRest
    /\ VanillaAtRest

Init ==
    /\ binding \in {"react", "vue"}
    /\ todos = <<>>
    /\ loading = TRUE
    /\ queue = <<>>
    /\ fetchState = "pending"
    /\ jsonState = "idle"
    /\ response = NoResponse
    /\ pIn = <<>> /\ pOp = "none" /\ pId = 0 /\ pTitle = <<>> /\ pOut = <<>>
    /\ AuxInit

\* as FetchResolve, with loading cleared when the response arrives and not in finally
FetchResolve_clearsLoading ==
    /\ fetchState = "pending"
    /\ \E r \in Responses : response' = r
    /\ fetchState' = "resolved"
    /\ jsonState' = "pending"
    /\ loading' = FALSE
    /\ UNCHANGED <<binding, todos, queue, pureVars, auxVars>>

\* await fetch(...) resolves with a response of any status; response.json() starts
FetchResolve ==
    /\ fetchState = "pending"
    /\ \E r \in Responses : response' = r
    /\ fetchState' = "resolved"
    /\ jsonState' = "pending"
    /\ UNCHANGED <<binding, todos, loading, queue, pureVars, auxVars>>

\* React: fetch() rejects; catch logs, finally setLoading(false)
ReactFetchReject ==
    /\ binding = "react"
    /\ fetchState = "pending"
    /\ fetchState' = "rejected"
    /\ queue' = Append(queue, SetLoadingTo(FALSE))
    /\ UNCHANGED <<binding, todos, loading, jsonState, response, pureVars, auxVars>>

\* React: response.json() resolves; setTodos(data), finally setLoading(false)
ReactJsonResolve ==
    /\ binding = "react"
    /\ jsonState = "pending"
    /\ response.parseable
    /\ jsonState' = "resolved"
    /\ queue' = queue \o <<SetTodosTo(response.body), SetLoadingTo(FALSE)>>
    /\ response' = NoResponse
    /\ UNCHANGED <<binding, todos, loading, fetchState, pureVars, auxVars>>

\* React: response.json() rejects; catch logs, finally setLoading(false)
ReactJsonReject ==
    /\ binding = "react"
    /\ jsonState = "pending"
    /\ ~response.parseable
    /\ jsonState' = "rejected"
    /\ queue' = Append(queue, SetLoadingTo(FALSE))
    /\ response' = NoResponse
    /\ UNCHANGED <<binding, todos, loading, fetchState, pureVars, auxVars>>

\* React: a render processes the queued updates
ReactRender ==
    /\ binding = "react"
    /\ queue # <<>>
    /\ LET st == ApplyAll([todos |-> todos, loading |-> loading], queue)
       IN  /\ todos' = st.todos
           /\ loading' = st.loading
    /\ queue' = <<>>
    /\ UNCHANGED <<binding, fetchState, jsonState, response, pureVars, auxVars>>

\* React addTodo: the record is built from the todos of the last render (the
\* handler's closure); the updater appends it to whatever the list then is
ReactAddTodo(title) ==
    queue' = Append(queue, AppendUpdater(newTodo(todos, title)))

\* React: the form is submitted with a title.  `required` refuses the empty
\* value, the action returns on a blank one and calls onAddTodo otherwise.
ReactSubmit ==
    /\ binding = "react"
    /\ Gestures(queue) < MaxQueue
    /\ Len(todos) < MaxLen
    /\ newId(todos) <= IdCap
    /\ \E title \in TypedTitles :
         /\ title # <<>>
         /\ IF trim(title) = <<>>
            THEN queue' = queue
            ELSE ReactAddTodo(title)
    /\ UNCHANGED <<binding, todos, loading, fetchState, jsonState, response, pureVars, auxVars>>

\* React: the checkbox of a rendered item (the list is rendered once loading is false)
ReactToggle ==
    /\ binding = "react"
    /\ ~loading
    /\ Gestures(queue) < MaxQueue
    /\ \E id \in Ids(todos) : queue' = Append(queue, ToggleUpdater(id))
    /\ UNCHANGED <<binding, todos, loading, fetchState, jsonState, response, pureVars, auxVars>>

\* React: the x button of a rendered item
ReactDelete ==
    /\ binding = "react"
    /\ ~loading
    /\ Gestures(queue) < MaxQueue
    /\ \E id \in Ids(todos) : queue' = Append(queue, DeleteUpdater(id))
    /\ UNCHANGED <<binding, todos, loading, fetchState, jsonState, response, pureVars, auxVars>>

\* Vue: fetch() rejects; catch logs, finally loading.value = false
VueFetchReject ==
    /\ binding = "vue"
    /\ fetchState = "pending"
    /\ fetchState' = "rejected"
    /\ loading' = FALSE
    /\ UNCHANGED <<binding, todos, queue, jsonState, response, pureVars, auxVars>>

\* as VueJsonResolve, with the records already in the list kept after the seed
VueJsonResolve_keepsAdded ==
    /\ binding = "vue"
    /\ jsonState = "pending"
    /\ response.parseable
    /\ jsonState' = "resolved"
    /\ todos' = response.body \o todos
    /\ loading' = FALSE
    /\ response' = NoResponse
    /\ UNCHANGED <<binding, queue, fetchState, pureVars, auxVars>>

\* Vue: todos.value = await response.json(), finally loading.value = false
VueJsonResolve ==
    /\ binding = "vue"
    /\ jsonState = "pending"
    /\ response.parseable
    /\ jsonState' = "resolved"
    /\ todos' = response.body
    /\ loading' = FALSE
    /\ response' = NoResponse
    /\ UNCHANGED <<binding, queue, fetchState, pureVars, auxVars>>

\* as VueJsonReject, without the finally that clears loading
VueJsonReject_noFinally ==
    /\ binding = "vue"
    /\ jsonState = "pending"
    /\ ~response.parseable
    /\ jsonState' = "rejected"
    /\ response' = NoResponse
    /\ UNCHANGED <<binding, todos, loading, queue, fetchState, pureVars, auxVars>>

\* Vue: response.json() rejects; catch logs, finally loading.value = false
VueJsonReject ==
    /\ binding = "vue"
    /\ jsonState = "pending"
    /\ ~response.parseable
    /\ jsonState' = "rejected"
    /\ loading' = FALSE
    /\ response' = NoResponse
    /\ UNCHANGED <<binding, todos, queue, fetchState, pureVars, auxVars>>

\* Vue: TodoForm emits add-todo with the typed title; addTodo pushes
VueAddTodo ==
    /\ binding = "vue"
    /\ Len(todos) < MaxLen
    /\ newId(todos) <= IdCap
    /\ \E title \in TypedTitles : todos' = addTodo(todos, title)
    /\ UNCHANGED <<binding, loading, queue, fetchState, jsonState, response, pureVars, auxVars>>

\* Vue: the checkbox of a rendered item (v-else of loading)
VueToggle ==
    /\ binding = "vue"
    /\ ~loading
    /\ \E id \in Ids(todos) : todos' = toggleTodo(todos, id)
    /\ UNCHANGED <<binding, loading, queue, fetchState, jsonState, response, pureVars, auxVars>>

\* Vue: the x button of a rendered item
VueDelete ==
    /\ binding = "vue"
    /\ ~loading
    /\ \E id \in Ids(todos) : todos' = deleteTodo(todos, id)
    /\ UNCHANGED <<binding, loading, queue, fetchState, jsonState, response, pureVars, auxVars>>

Next ==
    \/ FetchResolve
    \/ ReactFetchReject
    \/ ReactJsonResolve
    \/ ReactJsonReject
    \/ ReactRender
    \/ ReactSubmit
    \/ ReactToggle
    \/ ReactDelete
    \/ VueFetchReject
    \/ VueJsonResolve
    \/ VueJsonReject
    \/ VueAddTodo
    \/ VueToggle
    \/ VueDelete

Spec == Init /\ [][Next]_vars

\* the steps of the fetch handler and the render React has scheduled
FetchSettles == FetchResolve \/ ReactFetchReject \/ VueFetchReject
JsonSettles == ReactJsonResolve \/ ReactJsonReject \/ VueJsonResolve \/ VueJsonReject

\* the component when the fetch settles, response.json() settles and React
\* renders the updates it has queued
FairSpec ==
    /\ Init
    /\ [][Next]_vars
    /\ WF_vars(FetchSettles)
    /\ WF_vars(JsonSettles)
    /\ WF_vars(ReactRender)

----------------------------------------------------------------------------
\* The list operations taken alone, on every list within the bounds

\* records of both origins: added locally (owner 1) and served (owner 2)
PTodos ==
    {Todo(1, i, <<"a">>, c) : i \in 1..PMaxId, c \in BOOLEAN}
    \cup {Todo(2, i, <<" ", "a">>, c) : i \in 1..PMaxId, c \in BOOLEAN}

PLists == SeqsUpTo(PTodos, PMaxLen)

\* the ids asked for: those a list can hold and one that none holds
PIds == 1..(PMaxId + 1)

PInit ==
    /\ pIn \in PLists
    /\ pOp = "none"
    /\ pId = 0
    /\ pTitle = <<>>
    /\ pOut = <<>>
    /\ binding = "vue"
    /\ todos = <<>>
    /\ loading = TRUE
    /\ queue = <<>>
    /\ fetchState = "pending"
    /\ jsonState = "idle"
    /\ response = NoResponse
    /\ AuxInit

PToggle ==
    /\ pOp = "none"
    /\ \E id \in PIds :
         /\ pId' = id
         /\ pOut' = toggleTodo(pIn, id)
    /\ pOp' = "toggle"
    /\ UNCHANGED <<pIn, pTitle, appVars, auxVars>>

PDelete ==
    /\ pOp = "none"
    /\ \E id \in PIds :
         /\ pId' = id
         /\ pOut' = deleteTodo(pIn, id)
    /\ pOp' = "delete"
    /\ UNCHANGED <<pIn, pTitle, appVars, auxVars>>

PAdd ==
    /\ pOp = "none"
    /\ \E title \in Titles :
         /\ pTitle' = title
         /\ pOut' = addTodo(pIn, title)
    /\ pOp' = "add"
    /\ UNCHANGED <<pIn, pId, appVars, auxVars>>

\* the same toggle applied to the list the first one returned
PToggleAgain ==
    /\ pOp = "toggle"
    /\ pOut' = toggleTodo(pOut, pId)
    /\ pOp' = "toggleToggle"
    /\ UNCHANGED <<pIn, pId, pTitle, appVars, auxVars>>

PNext ==
    \/ PToggle
    \/ PDelete
    \/ PAdd
    \/ PToggleAgain

PureSpec == PInit /\ [][PNext]_vars

----------------------------------------------------------------------------
\* The store after its seed load, each gesture applied to the list the one
\* before produced (every update rendered before the next gesture), with the
\* ids addTodo gives and one observer that holds a reference to the array.

StoreInit ==
    /\ binding \in {"react", "vue"}
    /\ todos \in Seeds
    /\ loading = FALSE
    /\ queue = <<>>
    /\ fetchState = "resolved"
    /\ jsonState = "resolved"
    /\ response = NoResponse
    /\ pIn = <<>> /\ pOp = "none" /\ pId = 0 /\ pTitle = <<>> /\ pOut = <<>>
    /\ given = <<>>
    /\ snap = NoSnap
    /\ StorageAtRest
    /\ VanillaAtRest

\* a new array becomes the state: a reference taken before holds the old one
Replaced(s) == [s EXCEPT !.same = FALSE]

\* the array is changed in place: a reference to it shows the new content
MutatedTo(s, ts) == IF s.taken /\ s.same THEN [s EXCEPT !.val = ts] ELSE s

\* an observer keeps a reference to the current array (todos, todos.value)
Observe ==
    /\ ~snap.taken
    /\ snap' = [taken |-> TRUE, same |-> TRUE, val |-> todos]
    /\ UNCHANGED <<appVars, pureVars, storageVars, vanillaVars, given>>

\* React addTodo, rendered: setTodos((todos) => [...todos, newTodo])
StoreAddReact ==
    /\ binding = "react"
    /\ Len(todos) < MaxLen
    /\ Len(given) < MaxAdds
    /\ newId(todos) <= IdCap
    /\ \E title \in TypedTitles :
         /\ trim(title) # <<>>
         /\ todos' = Append(todos, newTodo(todos, title))
    /\ given' = Append(given, newId(todos))
    /\ snap' = Replaced(snap)
    /\ UNCHANGED <<binding, loading, queue, fetchState, jsonState, response, pureVars, storageVars, vanillaVars>>

\* Vue addTodo: todos.value.push(newTodo)
StoreAddVue ==
    /\ binding = "vue"
    /\ Len(todos) < MaxLen
    /\ Len(given) < MaxAdds
    /\ newId(todos) <= IdCap
    /\ \E title \in TypedTitles : todos' = addTodo(todos, title)
    /\ given' = Append(given, newId(todos))
    /\ snap' = MutatedTo(snap, todos')
    /\ UNCHANGED <<binding, loading, queue, fetchState, jsonState, response, pureVars, storageVars, vanillaVars>>

\* toggleTodo of a rendered item: map builds a new array
StoreToggle ==
    /\ \E id \in Ids(todos) : todos' = toggleTodo(todos, id)
    /\ snap' = Replaced(snap)
    /\ UNCHANGED <<binding, loading, queue, fetchState, jsonState, response, pureVars, storageVars, vanillaVars, given>>

\* deleteTodo of a rendered item: filter builds a new array
StoreDelete ==
    /\ \E id \in Ids(todos) : todos' = deleteTodo(todos, id)
    /\ snap' = Replaced(snap)
    /\ UNCHANGED <<binding, loading, queue, fetchState, jsonState, response, pureVars, storageVars, vanillaVars, given>>

StoreNext ==
    \/ Observe
    \/ StoreAddReact
    \/ StoreAddVue
    \/ StoreToggle
    \/ StoreDelete

StoreSpec == StoreInit /\ [][StoreNext]_vars

----------------------------------------------------------------------------
\* JSON text and the values it stands for (JSON.stringify, JSON.parse)

\* the longest stored array and the longest saved list that are explored
MaxStored == 2
MaxSaved == 2

\* a JavaScript value that is no object or array: its type, and the number
\* (n, plus one half when frac), the string s or the boolean b it is
JV(t, n, frac, s, b) == [t |-> t, n |-> n, frac |-> frac, s |-> s, b |-> b]
JUndef == JV("undefined", 0, FALSE, <<>>, FALSE)
JNull == JV("null", 0, FALSE, <<>>, FALSE)
JNum(n) == JV("number", n, FALSE, <<>>, FALSE)
JHalf(n) == JV("number", n, TRUE, <<>>, FALSE)
JStr(s) == JV("string", 0, FALSE, s, FALSE)
JBool(b) == JV("boolean", 0, FALSE, <<>>, b)

\* the properties of a todo, in the order the objects are built with
FieldNames == <<"userId", "id", "title", "completed">>
FieldSet == {"userId", "id", "title", "completed"}

\* the characters of each property name
FieldKey ==
    [k \in FieldSet |->
        CASE k = "userId" -> <<"u", "s", "e", "r", "I", "d">>
          [] k = "id" -> <<"i", "d">>
          [] k = "title" -> <<"t", "i", "t", "l", "e">>
          [] k = "completed" -> <<"c", "o", "m", "p", "l", "e", "t", "e", "d">>]

\* an object without properties: every read gives undefined
NoFields == [k \in FieldSet |-> JUndef]

\* an element of an array: an object with its properties, or a plain value
ElemObj(f) == [obj |-> TRUE, v |-> JUndef, f |-> f]
ElemVal(v) == [obj |-> FALSE, v |-> v, f |-> NoFields]

\* a todo as the object it is in memory
ElemOfTodo(t) ==
    ElemObj([k \in FieldSet |->
        CASE k = "userId" -> JNum(t.userId)
          [] k = "id" -> JNum(t.id)
          [] k = "title" -> JStr(t.title)
          [] k = "completed" -> JBool(t.completed)])

\* the tokens of a text: punctuation, a literal, anything else
Punct(c) == [k |-> "punct", c |-> c, v |-> JUndef]
Lit(v) == [k |-> "lit", c |-> "", v |-> v]
Junk == [k |-> "junk", c |-> "", v |-> JUndef]

\* JavaScript truthiness
TruthyV(v) ==
    CASE v.t = "undefined" -> FALSE
      [] v.t = "null" -> FALSE
      [] v.t = "boolean" -> v.b
      [] v.t = "number" -> v.n # 0 \/ v.frac
      [] v.t = "string" -> v.s # <<>>
Truthy(e) == e.obj \/ TruthyV(e.v)

\* the property names written when those of a falsy value are left out
Defined_truthy(f) == SelectSeq(FieldNames, LAMBDA k : TruthyV(f[k]))

\* the property names of an object that JSON.stringify writes
Defined(f) == SelectSeq(FieldNames, LAMBDA k : f[k].t # "undefined")

\* "name":value of each property, separated by commas
RECURSIVE JoinMembers(_, _)
JoinMembers(f, ks) ==
    IF ks = <<>> THEN <<>>
    ELSE LET rest == JoinMembers(f, Tail(ks))
             one == <<Lit(JStr(FieldKey[Head(ks)])), Punct(":"), Lit(f[Head(ks)])>>
         IN  IF rest = <<>> THEN one ELSE one \o <<Punct(",")>> \o rest

\* the text of one element; undefined in an array is written null
stringifyElem(e) ==
    IF e.obj THEN <<Punct("{")>> \o JoinMembers(e.f, Defined(e.f)) \o <<Punct("}")>>
    ELSE IF e.v.t = "undefined" THEN <<Lit(JNull)>>
    ELSE <<Lit(e.v)>>

RECURSIVE JoinElems(_)
JoinElems(es) ==
    IF es = <<>> THEN <<>>
    ELSE IF Len(es) = 1 THEN stringifyElem(es[1])
    ELSE stringifyElem(es[1]) \o <<Punct(",")>> \o JoinElems(Tail(es))

\* JSON.stringify of an array
stringify(es) == <<Punct("[")>> \o JoinElems(es) \o <<Punct("]")>>

\* the property a name stands for, "" for a name no code reads
KeyName(s) ==
    IF \E k \in FieldSet : FieldKey[k] = s
    THEN CHOOSE k \in FieldSet : FieldKey[k] = s
    ELSE ""

\* the object with one more property read: a repeated name keeps the last
PutField(f, k, v) == IF k = "" THEN f ELSE [f EXCEPT ![k] = v]

\* the parser reads the text token by token.  Its state: what it expects
\* (mode), whether it is inside the array, the elements read (acc), the
\* properties of the object being read (f), the name read last (key) and the
\* value of a text that is no array (top).  The texts hold no array inside an
\* array or an object and no object inside an object.
ParseStart ==
    [mode |-> "start", inArr |-> FALSE, acc |-> <<>>, f |-> NoFields, key |-> "",
     top |-> ElemVal(JUndef)]

ParseError(st) == [st EXCEPT !.mode = "error"]

\* a whole value e has been read
ValueRead(st, e) ==
    IF st.inArr THEN [st EXCEPT !.acc = Append(st.acc, e), !.mode = "arrSep"]
    ELSE [st EXCEPT !.top = e, !.mode = "done"]

\* a value begins with tok
ValueStart(st, tok) ==
    IF tok.k = "lit" THEN ValueRead(st, ElemVal(tok.v))
    ELSE IF tok = Punct("{") THEN [st EXCEPT !.mode = "obj0", !.f = NoFields]
    ELSE IF tok = Punct("[") /\ st.mode = "start"
         THEN [st EXCEPT !.mode = "arr0", !.inArr = TRUE]
    ELSE ParseError(st)

\* a property name begins with tok
NameStart(st, tok) ==
    IF tok.k = "lit" /\ tok.v.t = "string"
    THEN [st EXCEPT !.key = KeyName(tok.v.s), !.mode = "objC"]
    ELSE ParseError(st)

ParseStep(st, tok) ==
    CASE st.mode = "start" -> ValueStart(st, tok)
      [] st.mode = "arr0" ->
           IF tok = Punct("]") THEN [st EXCEPT !.mode = "done"] ELSE ValueStart(st, tok)
      [] st.mode = "arrV" -> ValueStart(st, tok)
      [] st.mode = "arrSep" ->
           IF tok = Punct("]") THEN [st EXCEPT !.mode = "done"]
           ELSE IF tok = Punct(",") THEN [st EXCEPT !.mode = "arrV"]
           ELSE ParseError(st)
      [] st.mode = "obj0" ->
           IF tok = Punct("}") THEN ValueRead(st, ElemObj(st.f)) ELSE NameStart(st, tok)
      [] st.mode = "objK" -> NameStart(st, tok)
      [] st.mode = "objC" ->
           IF tok = Punct(":") THEN [st EXCEPT !.mode = "objV"] ELSE ParseError(st)
      [] st.mode = "objV" ->
           IF tok.k = "lit"
           THEN [st EXCEPT !.f = PutField(st.f, st.key, tok.v), !.mode = "objSep"]
           ELSE ParseError(st)
      [] st.mode = "objSep" ->
           IF tok = Punct("}") THEN ValueRead(st, ElemObj(st.f))
           ELSE IF tok = Punct(",") THEN [st EXCEPT !.mode = "objK"]
           ELSE ParseError(st)
      [] OTHER -> ParseError(st)

RECURSIVE ParseRun(_, _)
ParseRun(st, toks) ==
    IF toks = <<>> \/ st.mode = "error" THEN st
    ELSE ParseRun(ParseStep(st, Head(toks)), Tail(toks))

\* what JSON.parse gives: a SyntaxError (ok is FALSE), an array of elements, or
\* another value (top)
SyntaxError == [ok |-> FALSE, isArray |-> FALSE, elems |-> <<>>, top |-> ElemVal(JUndef)]
ParsedArray(es) == [ok |-> TRUE, isArray |-> TRUE, elems |-> es, top |-> ElemVal(JUndef)]
ParsedOther(e) == [ok |-> TRUE, isArray |-> FALSE, elems |-> <<>>, top |-> e]

\* JSON.parse: the whole text is one value
JSONparse(toks) ==
    LET st == ParseRun(ParseStart, toks)
    IN  IF st.mode # "done" THEN SyntaxError
        ELSE IF st.inArr THEN ParsedArray(st.acc)
        ELSE ParsedOther(st.top)

----------------------------------------------------------------------------
\* Loading from and saving to localStorage

\* what a load leaves: an exception or the value of the list in memory
Threw == [threw |-> TRUE, value |-> ArrayOf(<<>>)]
Returned(val) == [threw |-> FALSE, value |-> val]

\* JSON.parse(localStorage.getItem("todos")): a missing key gives null, which
\* JSON.parse reads as the text null
parseItem(s) == JSONparse(IF s.present THEN s.text ELSE <<Lit(JNull)>>)

\* the script's load without the fallback || []
vanillaLoad_noFallback(s) ==
    LET p == parseItem(s)
    IN  IF ~p.ok THEN Threw
        ELSE IF p.isArray THEN Returned(ArrayOf(p.elems))
        ELSE Returned(NotAnArray)

\* the script's load: JSON.parse(localStorage.getItem("todos")) || []
vanillaLoad(s) ==
    LET p == parseItem(s)
    IN  IF ~p.ok THEN Threw
        ELSE IF p.isArray THEN Returned(ArrayOf(p.elems))
        ELSE IF Truthy(p.top) THEN Returned(NotAnArray)
        ELSE Returned(ArrayOf(<<>>))

\* the script from its load to its first render(): todos.forEach throws on a
\* value that is no array
vanillaStart(s) ==
    LET r == vanillaLoad(s)
    IN  IF ~r.threw /\ ~r.value.isArray THEN [r EXCEPT !.threw = TRUE] ELSE r

\* loadTodos with Array.isArray and try/catch
loadTodos(s) ==
    IF ~s.present \/ s.text = <<>> THEN Returned(ArrayOf(<<>>))
    ELSE LET p == JSONparse(s.text)
         IN  IF ~p.ok THEN Returned(ArrayOf(<<>>))
             ELSE IF ~p.isArray THEN Returned(ArrayOf(<<>>))
             ELSE Returned(ArrayOf(p.elems))

\* the test of the filter of the validating loadTodos; a property read on a
\* value that is no object gives undefined
KeepsTodo(e) ==
    /\ Truthy(e)
    /\ e.f["id"].t = "number"
    /\ e.f["title"].t = "string"
    /\ e.f["completed"].t = "boolean"

\* loadTodos that filters the elements
loadTodosValidated(s) ==
    IF ~s.present \/ s.text = <<>> THEN Returned(ArrayOf(<<>>))
    ELSE LET p == JSONparse(s.text)
         IN  IF ~p.ok THEN Returned(ArrayOf(<<>>))
             ELSE IF ~p.isArray THEN Returned(ArrayOf(<<>>))
             ELSE Returned(ArrayOf(SelectSeq(p.elems, KeepsTodo)))

Impls == {"vanilla", "doc", "docValidated"}

\* what the program has after it started on the slot s
Load(i, s) ==
    CASE i = "vanilla" -> vanillaStart(s)
      [] i = "doc" -> loadTodos(s)
      [] i = "docValidated" -> loadTodosValidated(s)

\* localStorage.setItem: the value is stored, or an exception (quota, storage
\* disabled) leaves the slot as it was
setItem(s, text, fails) == IF fails THEN s ELSE [present |-> TRUE, text |-> text]

\* save() of the script has no try; saveTodos catches
SaveThrows(i, fails) == fails /\ i = "vanilla"

\* elements found in storage: todos of the documents and of the bindings, an
\* object whose id is a string, one whose id is 1.5, a string, null
RecA == ElemObj([NoFields EXCEPT !["id"] = JNum(1), !["title"] = JStr(<<"a">>),
                                 !["completed"] = JBool(TRUE)])
RecB == ElemOfTodo(Todo(1, 2, <<"a">>, FALSE))
BadId == ElemObj([NoFields EXCEPT !["id"] = JStr(<<"a">>)])
HalfId == ElemObj([NoFields EXCEPT !["id"] = JHalf(1), !["title"] = JStr(<<"a">>),
                                   !["completed"] = JBool(FALSE)])
StoredElems == {RecA, RecB, BadId, HalfId, ElemVal(JStr(<<"a">>)), ElemVal(JNull)}

\* texts that are no array: empty, not JSON, null, an object, a cut array, an
\* array with a comma before its end
OtherTexts ==
    { <<>>,
      <<Junk, Junk>>,
      <<Lit(JNull)>>,
      <<Punct("{"), Punct("}")>>,
      <<Punct("["), Lit(JNum(1))>>,
      <<Punct("["), Lit(JNum(1)), Punct(","), Punct("]")>> }

\* what the key may hold when the program starts
Slots ==
    {Absent}
      \cup {[present |-> TRUE, text |-> t] : t \in OtherTexts}
      \cup {[present |-> TRUE, text |-> stringify(es)] : es \in SeqsUpTo(StoredElems, MaxStored)}

\* a record as the specification of the list has it: an integer id, a string
\* title, a boolean completed
ValidRecord(e) ==
    /\ e.obj
    /\ e.f["id"].t = "number" /\ ~e.f["id"].frac
    /\ e.f["title"].t = "string"
    /\ e.f["completed"].t = "boolean"

\* a list the program may hold: records, and for the script also titles
ValidList(i, L) ==
    \A k \in DOMAIN L :
        ValidRecord(L[k]) \/ (i = "vanilla" /\ ~L[k].obj /\ L[k].v.t = "string")

\* the lists the program saves: todos, and for the script also titles
SavedElems(i) ==
    {RecA, RecB} \cup (IF i = "vanilla" THEN {ElemVal(JStr(<<"a">>))} ELSE {})
SaveLists(i) == SeqsUpTo(SavedElems(i), MaxSaved)

StorageInit ==
    /\ impl \in Impls
    /\ slot \in Slots
    /\ mem = ArrayOf(<<>>)
    /\ saved = <<>>
    /\ sPc = "init"
    /\ thrown = FALSE
    /\ wrote = FALSE
    /\ binding = "vue"
    /\ todos = <<>>
    /\ loading = TRUE
    /\ queue = <<>>
    /\ fetchState = "pending"
    /\ jsonState = "idle"
    /\ response = NoResponse
    /\ pIn = <<>> /\ pOp = "none" /\ pId = 0 /\ pTitle = <<>> /\ pOut = <<>>
    /\ given = <<>>
    /\ snap = NoSnap
    /\ VanillaAtRest

\* the program starts: it loads the list
StorageLoad ==
    /\ sPc = "init"
    /\ thrown' = Load(impl, slot).threw
    /\ mem' = Load(impl, slot).value
    /\ sPc' = "loaded"
    /\ UNCHANGED <<impl, slot, saved, wrote, appVars, pureVars, storeVars, vanillaVars>>

\* the list changes to L and is saved; the write may fail
StorageSave ==
    /\ sPc = "loaded"
    /\ ~thrown
    /\ \E L \in SaveLists(impl), fails \in BOOLEAN :
         /\ mem' = ArrayOf(L)
         /\ saved' = L
         /\ slot' = setItem(slot, stringify(L), fails)
         /\ wrote' = ~fails
         /\ thrown' = SaveThrows(impl, fails)
    /\ sPc' = "saved"
    /\ UNCHANGED <<impl, appVars, pureVars, storeVars, vanillaVars>>

\* the page is loaded again
StorageReload ==
    /\ sPc = "saved"
    /\ thrown' = Load(impl, slot).threw
    /\ mem' = Load(impl, slot).value
    /\ sPc' = "reloaded"
    /\ UNCHANGED <<impl, slot, saved, wrote, appVars, pureVars, storeVars, vanillaVars>>

StorageNext ==
    \/ StorageLoad
    \/ StorageSave
    \/ StorageReload

StorageSpec == StorageInit /\ [][StorageNext]_vars

----------------------------------------------------------------------------
\* The start of each program on a storage that holds a list or nothing: the
\* components of App.tsx ("app"; they fetch the seed), the script ("vanilla")
\* and the component with localStorage of the documents ("doc")

\* the todos of a component as the objects they are
TodosAsElems(ts) == [k \in DOMAIN ts |-> ElemOfTodo(ts[k])]

\* what the key holds when the program starts: nothing, or a list saved before
BootSlots ==
    {Absent} \cup {[present |-> TRUE, text |-> stringify(L)] : L \in SaveLists("doc")}

BootInit ==
    /\ slot \in BootSlots
    /\ mem = ArrayOf(<<>>)
    /\ saved = <<>>
    /\ thrown = FALSE
    /\ wrote = FALSE
    /\ todos = <<>>
    /\ loading = TRUE
    /\ queue = <<>>
    /\ jsonState = "idle"
    /\ response = NoResponse
    /\ pIn = <<>> /\ pOp = "none" /\ pId = 0 /\ pTitle = <<>> /\ pOut = <<>>
    /\ given = <<>>
    /\ snap = NoSnap
    /\ \/ /\ impl = "app"
          /\ binding \in {"react", "vue"}
          /\ fetchState = "pending"
          /\ sPc = "none"
       \/ /\ impl \in {"vanilla", "doc"}
          /\ binding = "vue"
          /\ fetchState = "none"
          /\ sPc = "init"
    /\ VanillaAtRest

\* the script runs: load, first render()
VanillaStart ==
    /\ impl = "vanilla"
    /\ StorageLoad

\* the component of the documents mounts: useState(() => loadTodos()), then
\* the effect on [todos] runs saveTodos(todos)
DocAppMount ==
    /\ impl = "doc"
    /\ sPc = "init"
    /\ mem' = loadTodos(slot).value
    /\ saved' = loadTodos(slot).value.list
    /\ \E fails \in BOOLEAN :
         /\ slot' = setItem(slot, stringify(loadTodos(slot).value.list), fails)
         /\ wrote' = ~fails
    /\ thrown' = FALSE
    /\ sPc' = "loaded"
    /\ UNCHANGED <<impl, appVars, pureVars, storeVars, vanillaVars>>

BootNext ==
    \/ FetchResolve
    \/ ReactFetchReject
    \/ ReactJsonResolve
    \/ ReactJsonReject
    \/ ReactRender
    \/ VueFetchReject
    \/ VueJsonResolve
    \/ VueJsonReject
    \/ VanillaStart
    \/ DocAppMount

BootSpec == BootInit /\ [][BootNext]_vars

----------------------------------------------------------------------------
\* A change of the key made in another tab: the storage event and its
\* handler in an instance that holds a list

\* handleStorageChange for an event on the key, its newValue the slot s (null
\* when the key was removed): the list of the instance after it
handleStorageChange(cur, s) ==
    IF ~s.present \/ s.text = <<>> THEN cur
    ELSE LET p == JSONparse(s.text)
         IN  IF ~p.ok THEN cur
             ELSE IF p.isArray THEN ArrayOf(p.elems)
             ELSE NotAnArray

\* the instance has loaded the list that the key holds
SyncInit ==
    /\ impl \in {"doc", "docValidated"}
    /\ \E L \in SaveLists("doc") :
         /\ slot = [present |-> TRUE, text |-> stringify(L)]
         /\ mem = ArrayOf(L)
    /\ saved = <<>>
    /\ sPc = "loaded"
    /\ thrown = FALSE
    /\ wrote = FALSE
    /\ binding = "vue"
    /\ todos = <<>>
    /\ loading = TRUE
    /\ queue = <<>>
    /\ fetchState = "pending"
    /\ jsonState = "idle"
    /\ response = NoResponse
    /\ pIn = <<>> /\ pOp = "none" /\ pId = 0 /\ pTitle = <<>> /\ pOut = <<>>
    /\ given = <<>>
    /\ snap = NoSnap
    /\ VanillaAtRest

\* another tab sets or removes the key; the event reaches the instance and
\* its handler runs
StorageEvent ==
    /\ sPc \in {"loaded", "synced"}
    /\ \E s \in Slots :
         /\ slot' = s
         /\ mem' = handleStorageChange(mem, s)
    /\ sPc' = "synced"
    /\ UNCHANGED <<impl, saved, thrown, wrote, appVars, pureVars, storeVars, vanillaVars>>

SyncNext == StorageEvent

SyncSpec == SyncInit /\ [][SyncNext]_vars

----------------------------------------------------------------------------
\* The script (src/src/App.vue 67-106) in two tabs on the same localStorage

\* the longest list of titles a tab holds
MaxTitles == 2

\* what is typed into the input
VInputs == {<<" ">>, <<"a">>, <<"b">>, <<"a", " ">>}

\* a title as an element of the list
TitleElem(s) == ElemVal(JStr(s))

\* the lists the script saves
TitleLists == SeqsUpTo({TitleElem(trim(v)) : v \in {w \in VInputs : trim(w) # <<>>}}, MaxTitles)

\* todos.splice(index, 1), the index counted from 1: past the end of the
\* list it removes nothing
splice(es, k) ==
    IF k \in DOMAIN es THEN SubSeq(es, 1, k - 1) \o SubSeq(es, k + 1, Len(es)) ELSE es

VanillaInit ==
    /\ slot \in {Absent} \cup {[present |-> TRUE, text |-> stringify(L)] : L \in TitleLists}
    /\ tab = [t \in Tabs |-> NotStarted]
    /\ act = NoAct
    /\ writer = 0
    /\ impl = "vanilla"
    /\ mem = ArrayOf(<<>>)
    /\ saved = <<>>
    /\ sPc = "init"
    /\ thrown = FALSE
    /\ wrote = FALSE
    /\ binding = "vue"
    /\ todos = <<>>
    /\ loading = TRUE
    /\ queue = <<>>
    /\ fetchState = "pending"
    /\ jsonState = "idle"
    /\ response = NoResponse
    /\ pIn = <<>> /\ pOp = "none" /\ pId = 0 /\ pTitle = <<>> /\ pOut = <<>>
    /\ given = <<>>
    /\ snap = NoSnap

\* the variables the script does not touch
vanillaRest == <<impl, mem, saved, sPc, thrown, wrote, appVars, pureVars, storeVars>>

\* a tab opens the page: the script loads the list and renders it
VanillaOpen(t) ==
    /\ ~tab[t].started
    /\ ~vanillaStart(slot).threw
    /\ tab' = [tab EXCEPT ![t] = [started |-> TRUE,
                                  todos |-> vanillaLoad(slot).value.list,
                                  dom |-> vanillaLoad(slot).value.list]]
    /\ act' = [t |-> t, op |-> "open", k |-> 0, done |-> TRUE]
    /\ UNCHANGED <<slot, writer, vanillaRest>>

\* save() after the list of tab t became es: setItem, then render(); when
\* setItem throws, render() is not reached and the handler ends by the
\* exception
VanillaSave(t, es, op, k, fails) ==
    /\ slot' = setItem(slot, stringify(es), fails)
    /\ tab' = [tab EXCEPT ![t] = [started |-> TRUE,
                                  todos |-> es,
                                  dom |-> IF fails THEN tab[t].dom ELSE es]]
    /\ writer' = IF fails THEN writer ELSE t
    /\ act' = [t |-> t, op |-> op, k |-> k, done |-> ~fails]

\* addBtn.onclick with the value v in the input
VanillaAdd(t) ==
    /\ tab[t].started
    /\ Len(tab[t].todos) < MaxTitles
    /\ \E v \in VInputs, fails \in BOOLEAN :
         IF trim(v) # <<>>
         THEN VanillaSave(t, Append(tab[t].todos, TitleElem(trim(v))), "add", 0, fails)
         ELSE /\ act' = [t |-> t, op |-> "blank", k |-> 0, done |-> TRUE]
              /\ UNCHANGED <<slot, tab, writer>>
    /\ UNCHANGED vanillaRest

\* removeBtn.onclick of the button shown at position k
VanillaRemove(t) ==
    /\ tab[t].started
    /\ \E k \in DOMAIN tab[t].dom, fails \in BOOLEAN :
         VanillaSave(t, splice(tab[t].todos, k), "remove", k, fails)
    /\ UNCHANGED vanillaRest

VanillaNext ==
    \E t \in Tabs :
        \/ VanillaOpen(t)
        \/ VanillaAdd(t)
        \/ VanillaRemove(t)

VanillaSpec == VanillaInit /\ [][VanillaNext]_vars

----------------------------------------------------------------------------
\* Helpers of the properties

\* the greatest element of a set of numbers, 0 for the empty set
MaxOf(S) == IF S = {} THEN 0 ELSE CHOOSE y \in S : \A z \in S : y >= z

Last(ts) == ts[Len(ts)]

\* the fetch handler has passed its awaits: fetch() rejected, or json() settled
FetchCompleted == fetchState = "rejected" \/ jsonState \in {"resolved", "rejected"}

FetchFailed == fetchState = "rejected" \/ jsonState = "rejected"

\* the id of the last record, 0 for the empty list
LastIdOf(ts) == IF ts = <<>> THEN 0 ELSE Last(ts).id

\* the queue holds toggle and delete updates only
OnlyTogglesAndDeletes(q) ==
    /\ q # <<>>
    /\ \A i \in DOMAIN q : q[i].op \in {"toggle", "delete"}

\* the ids the queue deletes, and the number of toggles it holds for an id
QueuedDeletes(q) == {q[i].id : i \in {j \in DOMAIN q : q[j].op = "delete"}}
QueuedToggles(q, id) == Cardinality({i \in DOMAIN q : q[i].op = "toggle" /\ q[i].id = id})

\* the list that reflects every update of the queue: the records whose id is
\* not deleted, in order, each toggled as many times as the queue says
AllApplied(ts, q) ==
    LET kept == SelectSeq(ts, LAMBDA t : t.id \notin QueuedDeletes(q))
    IN  [i \in DOMAIN kept |->
            [kept[i] EXCEPT !.completed = (@ # (QueuedToggles(q, kept[i].id) % 2 = 1))]]

\* the queue holds the fetch handler's setTodos(data) at position i and no
\* gesture queued after it
SeedIsLastAt(q, i) ==
    /\ i \in DOMAIN q
    /\ q[i].op = "set"
    /\ \A j \in DOMAIN q : j > i => q[j].op = "loading"

\* the ids grow strictly along the list
IdsIncreasing(ts) == \A j, k \in DOMAIN ts : j < k => ts[j].id < ts[k].id

----------------------------------------------------------------------------
\* Properties

\* C1: after any sequence of seed-load, add, toggle and delete, from a seed
\* with unique ids, the ids of the list are pairwise distinct.
C1_IdsUnique == UniqueIds(todos)

\* C2: add gives the new record the id 1 + the maximum id of the list (0 for
\* the empty list), for every list.
C2_NewIdIsMaxPlusOne ==
    (pOp = "add" /\ trim(pTitle) # <<>>) => Last(pOut).id = 1 + MaxOf(Ids(pIn))

\* C3: for a title that is not blank, add(L, t) has length len(L)+1 and its
\* last element has an id that occurs nowhere in L and completed = false.
C3_AddAppendsFresh ==
    (pOp = "add" /\ trim(pTitle) # <<>>) =>
        /\ Len(pOut) = Len(pIn) + 1
        /\ Last(pOut).id \notin Ids(pIn)
        /\ Last(pOut).completed = FALSE

\* C4: while loading is true no user mutation takes effect on the list: a step
\* that leaves loading true leaves the list as it was.
C4_NoMutationWhileLoading == [][(loading /\ loading') => todos' = todos]_vars

\* C5: loading is false only after the seed fetch has completed, by success
\* or by failure.
C5_LoadingClearedAfterFetch == ~loading => FetchCompleted

C5_Witness == ~loading /\ jsonState = "resolved" /\ todos # <<>>

\* C6: when the seed fetch fails, the list is [] at the moment loading is
\* cleared.
C6_FailedFetchGivesEmptyList ==
    [][(loading /\ ~loading' /\ FetchFailed') => todos' = <<>>]_vars

\* C7: a response with a non-2xx status is a fetch failure: the handler's step
\* on it neither replaces the list nor queues a replacement.
C7_NonOkIsFailure ==
    [][(jsonState = "pending" /\ jsonState' # "pending" /\ ~ResponseOk(response)) =>
          /\ todos' = todos
          /\ \A k \in DOMAIN queue' : queue'[k].op # "set"]_vars

\* C8: add with a title that is empty after trimming returns the list
\* unchanged.
C8_BlankTitleRejected ==
    (pOp = "add" /\ trim(pTitle) = <<>>) => pOut = pIn

\* C9: toggle with an id that no record of the list has returns the list.
C9_ToggleMissingIsNoop ==
    (pOp = "toggle" /\ pId \notin Ids(pIn)) => pOut = pIn

C9_Witness == pOp = "toggle" /\ pId \notin Ids(pIn) /\ Len(pIn) = PMaxLen

\* C10: delete with an id that no record of the list has returns the list.
C10_DeleteMissingIsNoop ==
    (pOp = "delete" /\ pId \notin Ids(pIn)) => pOut = pIn

C10_Witness == pOp = "delete" /\ pId \notin Ids(pIn) /\ Len(pIn) = PMaxLen

\* C11: toggling the same id twice returns the list, whether the id is in
\* the list or not.
C11_DoubleToggleIsIdentity == pOp = "toggleToggle" => pOut = pIn

C11_Witness == pOp = "toggleToggle" /\ pId \in Ids(pIn) /\ pOut = pIn

\* C12: toggle keeps length and order; the records with the id have completed
\* negated and id, title and owner unchanged; the other records are unchanged.
C12_ToggleFrame ==
    pOp = "toggle" =>
        /\ Len(pOut) = Len(pIn)
        /\ \A k \in DOMAIN pIn :
             /\ pOut[k].id = pIn[k].id
             /\ pOut[k].title = pIn[k].title
             /\ pOut[k].userId = pIn[k].userId
             /\ pOut[k].completed = (IF pIn[k].id = pId THEN ~pIn[k].completed
                                     ELSE pIn[k].completed)

C12_Witness ==
    /\ pOp = "toggle"
    /\ Len(pIn) = PMaxLen
    /\ \E j, k \in DOMAIN pIn : pIn[j].id = pId /\ pIn[k].id # pId /\ pIn[j].userId # 1

\* the positions of the records delete must keep
KeptPositions(ts, id) == {k \in DOMAIN ts : ts[k].id # id}

\* the j-th kept position, counted from the front
NthKept(ts, id, j) ==
    CHOOSE k \in KeptPositions(ts, id) :
        Cardinality({m \in KeptPositions(ts, id) : m <= k}) = j

\* C13: delete returns exactly the records whose id differs, unchanged and in
\* their relative order.
C13_DeleteKeepsTheRest ==
    pOp = "delete" =>
        /\ Len(pOut) = Cardinality(KeptPositions(pIn, pId))
        /\ \A j \in DOMAIN pOut : pOut[j] = pIn[NthKept(pIn, pId, j)]

C13_Witness ==
    /\ pOp = "delete"
    /\ Len(pIn) = PMaxLen
    /\ pIn[1].id = pId
    /\ Len(pOut) = PMaxLen - 1

\* C14 as claimed: every add gives an id greater than the ids given by the
\* adds before it, deletions in between or not.
C14_IdsMonotonic == \A j, k \in DOMAIN given : j < k => given[j] < given[k]

\* C14 as amended: every add gives an id greater than the id of the last
\* record of the list it reads, and 1 on the empty list.
C14_NewIdAboveLast ==
    [][Len(given') > Len(given) =>
          /\ Last(given') > LastIdOf(todos)
          /\ (todos = <<>> => Last(given') = 1)]_vars

\* an id given again: the record of the first add was deleted before the second
C14_Witness ==
    /\ Len(given) >= 2
    /\ given[2] <= given[1]
    /\ todos # <<>>
    /\ Last(todos).id = given[2]

\* C15: a reference to the list taken before a mutation shows the same
\* content after it.
C15_SnapshotUnchanged == [][snap.taken => snap'.val = snap.val]_vars

\* C17: a load from a slot whose text is no JSON gives the empty list and
\* raises nothing.
C17_MalformedLoadIsEmpty ==
    (sPc = "loaded" /\ slot.present /\ ~JSONparse(slot.text).ok)
        => (~thrown /\ mem = ArrayOf(<<>>))

\* C18: a load from a stored array returns the elements with an integer id,
\* a string title and a boolean completed, in stored order, and no other.
C18_LoadKeepsValidRecords ==
    (sPc = "loaded" /\ slot.present /\ JSONparse(slot.text).isArray)
        => (~thrown /\ mem = ArrayOf(SelectSeq(JSONparse(slot.text).elems, ValidRecord)))

\* C19: a list of valid records that was saved, its write done, is the list
\* the next load returns: the same records in the same order.
C19_RoundTrip ==
    (sPc = "reloaded" /\ wrote /\ ValidList(impl, saved))
        => (~thrown /\ mem = ArrayOf(saved))

\* two different records, one not completed, written over another value and
\* loaded again
C19_Witness ==
    /\ sPc = "reloaded"
    /\ wrote
    /\ Len(saved) >= 2
    /\ saved[1] = RecB
    /\ saved[2] = RecA
    /\ mem = ArrayOf(saved)

\* C20: a save whose write fails raises nothing to its caller and leaves the
\* stored value as it was.
C20_FailedSaveIsSilent ==
    [][(sPc = "loaded" /\ sPc' = "saved" /\ ~wrote') => (~thrown' /\ slot' = slot)]_vars

\* the program has started: the fetch handler of a component has finished
\* and its updates are rendered; the script or the component of the documents
\* has loaded
BootDone ==
    IF impl = "app" THEN FetchCompleted /\ queue = <<>> ELSE sPc = "loaded"

\* the list the program shows
CurrentList == IF impl = "app" THEN TodosAsElems(todos) ELSE mem.list

\* C16: once the program has started, a list held in storage is the list of
\* the program, whatever seed arrived; with nothing in storage and no seed
\* received the list is empty.
C16_PersistedWinsOverSeed ==
    BootDone =>
        /\ (slot.present /\ parseItem(slot).isArray) => CurrentList = parseItem(slot).elems
        /\ (~slot.present /\ (impl = "app" => FetchFailed)) => CurrentList = <<>>

\* C21: a load when the key is not in storage gives the empty list and raises
\* nothing.
C21_AbsentLoadIsEmpty ==
    (sPc = "loaded" /\ ~slot.present) => (~thrown /\ mem = ArrayOf(<<>>))

\* the script has started on a storage without the key
C21_Witness ==
    /\ sPc = "loaded"
    /\ ~slot.present
    /\ impl = "vanilla"
    /\ mem = ArrayOf(<<>>)

\* C22: after the handler of a storage event the list of the instance is
\* what load() returns on the new value of the key, whatever the list was.
C22_EventAdoptsLoadedValue ==
    [][sPc' = "synced" => mem' = Load(impl, slot').value]_vars

\* C23: for a title that is not blank, add(L, t) is L, every record as it was
\* and at its position, followed by exactly one record.
C23_AddKeepsTheList ==
    (pOp = "add" /\ trim(pTitle) # <<>>) =>
        /\ Len(pOut) = Len(pIn) + 1
        /\ SubSeq(pOut, 1, Len(pIn)) = pIn

\* an add to a list of two different records
C23_Witness ==
    /\ pOp = "add"
    /\ trim(pTitle) # <<>>
    /\ Len(pIn) = PMaxLen
    /\ pIn[1] # pIn[2]
    /\ Len(pOut) = PMaxLen + 1

\* C24: React: a render that processes a queue of toggle and delete updates
\* gives the list that reflects every one of them: no record of a deleted id,
\* every other record toggled once for each queued toggle of its id.
C24_NoQueuedUpdateLost ==
    [][(binding = "react" /\ OnlyTogglesAndDeletes(queue) /\ queue' = <<>>)
          => todos' = AllApplied(todos, queue)]_vars

\* a toggle and a delete of another record wait for the same render
C24_Witness ==
    /\ binding = "react"
    /\ Len(queue) = 2
    /\ queue[1].op = "toggle"
    /\ queue[2].op = "delete"
    /\ queue[1].id # queue[2].id
    /\ Len(todos) >= 2

\* C25: when the fetch settles, loading becomes false at some time and stays
\* false from then on, whatever gestures come in between.
C25_LoadingClearedForGood == <>[](~loading)

\* loading is cleared after a failed fetch, with a record added meanwhile
C25_Witness ==
    /\ ~loading
    /\ FetchFailed
    /\ todos # <<>>

\* C26: after a fetch handler that received the array, the list is that array
\* and nothing of what the list held before (Vue: after the handler's step;
\* React: after the render of its setTodos(data), no gesture queued behind
\* it); a handler whose fetch() or json() rejected leaves the list as it was.
C26_SeedReplacesTheList ==
    [][/\ (binding = "vue" /\ jsonState = "pending" /\ jsonState' = "resolved")
            => todos' = response.body
       /\ (binding = "react" /\ queue' = <<>>)
            => \A i \in DOMAIN queue : SeedIsLastAt(queue, i) => todos' = queue[i].data
       /\ (~FetchFailed /\ FetchFailed')
            => /\ todos' = todos
               /\ \A k \in DOMAIN queue' : queue'[k].op # "set"]_vars

\* React: a record added while loading waits in the queue, and the handler
\* has queued the array behind it
C26_Witness ==
    /\ binding = "react"
    /\ Len(queue) = 3
    /\ queue[1].op = "append"
    /\ queue[2].op = "set"
    /\ queue[2].data # <<>>
    /\ queue[3].op = "loading"

\* C27: an add, a toggle or a delete on a list whose ids grow strictly along
\* the list gives a list whose ids grow strictly along it: from such a seed
\* every list reached by gestures taken one at a time is such a list, and
\* its last record holds the greatest id.
C27_IdsStayIncreasing ==
    [][IdsIncreasing(todos) =>
          /\ IdsIncreasing(todos')
          /\ (todos' # <<>> => Last(todos').id = MaxOf(Ids(todos')))]_vars

\* two records added, one deleted in between or after, on increasing ids
C27_Witness ==
    /\ Len(given) >= 2
    /\ Len(todos) >= 2
    /\ IdsIncreasing(todos)
    /\ Last(todos).id = Last(given)
    /\ todos[1].userId = 2

\* C28: the script: when a handler that adds a title or removes an element
\* has finished, the key holds the serialization of the list of its tab, and
\* the tab shows that list in order.
C28_SavedAndShownAfterHandler ==
    [][act'.op \in {"add", "remove"} =>
          /\ slot' = [present |-> TRUE, text |-> stringify(tab'[act'.t].todos)]
          /\ tab'[act'.t].dom = tab'[act'.t].todos]_vars

\* C29: the script: a click on the remove button shown at position k finds
\* the list that is shown, and removes its element at position k: the
\* elements before it stay, those after it move up by one.
C29_RemoveAtShownPosition ==
    [][act'.op = "remove" =>
          LET before == tab[act'.t].todos
              after == tab'[act'.t].todos
              k == act'.k
          IN  /\ tab[act'.t].dom = before
              /\ k \in DOMAIN before
              /\ Len(after) = Len(before) - 1
              /\ \A i \in DOMAIN after : after[i] = IF i < k THEN before[i] ELSE before[i + 1]]_vars

\* C30: the script in two tabs: the key holds the serialization of the list
\* of the tab that saved last.
C30_SlotIsLastWritersList ==
    writer # 0 => slot = [present |-> TRUE, text |-> stringify(tab[writer].todos)]

====
